---------------------------- MODULE Spec2Model ----------------------------
(***************************************************************************)
(* Model of setup.py of HemoDownloader: the module body that binds `setup` *)
(* from setuptools (falling back to distutils.core) and calls it once with *)
(* the package metadata and the dependency list.  Python strings are       *)
(* sequences of one-character strings, so that the requirement strings are *)
(* parsed, not assumed.                                                    *)
(***************************************************************************)
EXTENDS Naturals, Sequences, FiniteSets

VARIABLES
    preferred,  \* outcome of `from setuptools import setup` in the environment
    fallback,   \* outcome of `from distutils.core import setup` in the environment
    pc,         \* position in the module body
    setup,      \* the module-level name `setup`
    imports,    \* import statements executed by the current evaluation
    calls,      \* setup(...) calls made by the current evaluation
    error,      \* exception that left the module body uncaught
    results,    \* completed evaluations, oldest first
    install     \* what the installer did with the declared requirements

vars == <<preferred, fallback, pc, setup, imports, calls, error, results, install>>

-----------------------------------------------------------------------------
(* Bounds *)

MaxEvals == 2       \* evaluations of the descriptor in one behaviour
MaxVerLen == 3      \* components of a candidate version
MaxDelta == 1       \* distance of a candidate component from the declared one

-----------------------------------------------------------------------------
(* The keyword arguments of the setup(...) call, lines 24-29 *)

name ==
    <<"H", "e", "m", "o", "D", "o", "w", "n", "l", "o", "a", "d", "e", "r",
      ".", "p", "y", "w">>

version ==
    <<"1", ".", "2">>

description_empty == <<>>

description ==
    <<"A", " ", "G", "U", "I", " ", "u", "t", "i", "l", "i", "t", "y", " ",
      "f", "o", "r", " ", "d", "o", "w", "n", "l", "o", "a", "d", "i", "n",
      "g", " ", "d", "a", "t", "a", " ", "f", "r", "o", "m", " ", "H", "e",
      "m", "o", "C", "u", "e", "U+00AE", " ", "H", "b", "A", "1", "c", " ",
      "d", "e", "v", "i", "c", "e", "s">>

author ==
    <<"M", "a", "r", "t", "i", "n", " ", "R", "u", "n", "e", " ", "H", "a",
      "s", "s", "a", "n", " ", "H", "a", "n", "s", "e", "n">>

author_email ==
    <<"m", "a", "r", "t", "i", "n", "r", "u", "n", "e", "h", "a", "s", "s",
      "a", "n", "h", "a", "n", "s", "e", "n", "@", "p", "h", ".", "a", "u",
      ".", "d", "k">>

install_requires_raised ==
    << <<"p", "y", "s", "e", "r", "i", "a", "l", ">", "=", "3", ".", "5">>,
       <<"x", "l", "s", "x", "w", "r", "i", "t", "e", "r", ">", "=", "1", ".",
         "1", ".", "8">>,
       <<"x", "l", "w", "t", ">", "=", "1", ".", "3", ".", "0">> >>

install_requires_pinned ==
    << <<"p", "y", "s", "e", "r", "i", "a", "l", "=", "=", "3", ".", "4">>,
       <<"x", "l", "s", "x", "w", "r", "i", "t", "e", "r", ">", "=", "1", ".",
         "1", ".", "8">>,
       <<"x", "l", "w", "t", ">", "=", "1", ".", "3", ".", "0">> >>

install_requires_strict ==
    << <<"p", "y", "s", "e", "r", "i", "a", "l", ">", "3", ".", "4">>,
       <<"x", "l", "s", "x", "w", "r", "i", "t", "e", "r", ">", "=", "1", ".",
         "1", ".", "8">>,
       <<"x", "l", "w", "t", ">", "=", "1", ".", "3", ".", "0">> >>

install_requires_prerelease ==
    << <<"p", "y", "s", "e", "r", "i", "a", "l", ">", "=", "3", ".", "4">>,
       <<"x", "l", "s", "x", "w", "r", "i", "t", "e", "r", ">", "=", "1", ".",
         "1", ".", "8">>,
       <<"x", "l", "w", "t", ">", "=", "1", ".", "3", ".", "0", "r", "c",
         "1">> >>

install_requires ==
    << <<"p", "y", "s", "e", "r", "i", "a", "l", ">", "=", "3", ".", "4">>,
       <<"x", "l", "s", "x", "w", "r", "i", "t", "e", "r", ">", "=", "1", ".",
         "1", ".", "8">>,
       <<"x", "l", "w", "t", ">", "=", "1", ".", "3", ".", "0">> >>

SetupKwargs ==
    [name |-> name,
     version |-> version,
     description |-> description,
     author |-> author,
     author_email |-> author_email,
     install_requires |-> install_requires]

-----------------------------------------------------------------------------
(* The installer's reading of a requirement string: name, comparison       *)
(* operator, version.                                                      *)

OperatorChars == {"<", ">", "=", "!", "~"}

Digits == {"0", "1", "2", "3", "4", "5", "6", "7", "8", "9"}

DigitValue(c) ==
    CASE c = "0" -> 0 [] c = "1" -> 1 [] c = "2" -> 2 [] c = "3" -> 3
      [] c = "4" -> 4 [] c = "5" -> 5 [] c = "6" -> 6 [] c = "7" -> 7
      [] c = "8" -> 8 [] c = "9" -> 9

OpStart(s) ==
    IF \E i \in 1..Len(s) : s[i] \in OperatorChars
    THEN CHOOSE i \in 1..Len(s) :
            /\ s[i] \in OperatorChars
            /\ \A j \in 1..(i - 1) : s[j] \notin OperatorChars
    ELSE Len(s) + 1

OpEnd(s) ==
    IF OpStart(s) > Len(s)
    THEN Len(s)
    ELSE CHOOSE k \in OpStart(s)..Len(s) :
            /\ \A j \in OpStart(s)..k : s[j] \in OperatorChars
            /\ (k = Len(s) \/ s[k + 1] \notin OperatorChars)

ReqName(s) == SubSeq(s, 1, OpStart(s) - 1)

ReqOperator(s) == SubSeq(s, OpStart(s), OpEnd(s))

ReqVersion(s) == SubSeq(s, OpEnd(s) + 1, Len(s))

RECURSIVE SplitOn(_, _)
SplitOn(s, sep) ==
    IF \E i \in 1..Len(s) : s[i] = sep
    THEN LET i == CHOOSE k \in 1..Len(s) :
                     s[k] = sep /\ \A j \in 1..(k - 1) : s[j] # sep
         IN  <<SubSeq(s, 1, i - 1)>> \o SplitOn(SubSeq(s, i + 1, Len(s)), sep)
    ELSE <<s>>

IsNumeric(cs) == Len(cs) > 0 /\ \A i \in 1..Len(cs) : cs[i] \in Digits

RECURSIVE DecimalValue(_)
DecimalValue(cs) ==
    IF cs = <<>>
    THEN 0
    ELSE DecimalValue(SubSeq(cs, 1, Len(cs) - 1)) * 10 + DigitValue(cs[Len(cs)])

ValidVersion(s) ==
    LET parts == SplitOn(s, ".")
    IN  \A i \in 1..Len(parts) : IsNumeric(parts[i])

ParseVersion(s) ==
    LET parts == SplitOn(s, ".")
    IN  [i \in 1..Len(parts) |-> DecimalValue(parts[i])]

ParseRequirement(s) ==
    [name |-> ReqName(s),
     op |-> ReqOperator(s),
     valid |-> ValidVersion(ReqVersion(s)),
     min |-> IF ValidVersion(ReqVersion(s))
             THEN ParseVersion(ReqVersion(s))
             ELSE <<>>]

(* Version precedence: component by component, missing components are 0. *)

Component(v, i) == IF i <= Len(v) THEN v[i] ELSE 0

MaxOf(a, b) == IF a >= b THEN a ELSE b

VersionEQ(a, b) ==
    \A i \in 1..MaxOf(Len(a), Len(b)) : Component(a, i) = Component(b, i)

VersionLT(a, b) ==
    \E i \in 1..MaxOf(Len(a), Len(b)) :
        /\ Component(a, i) < Component(b, i)
        /\ \A j \in 1..(i - 1) : Component(a, j) = Component(b, j)

VersionGE(a, b) == ~VersionLT(a, b)

Satisfies(req, v) ==
    CASE req.op = <<>> -> TRUE
      [] req.op = <<">", "=">> -> VersionGE(v, req.min)
      [] req.op = <<"=", "=">> -> VersionEQ(v, req.min)
      [] req.op = <<"<", "=">> -> VersionLT(v, req.min) \/ VersionEQ(v, req.min)
      [] req.op = <<">">> -> ~VersionLT(v, req.min) /\ ~VersionEQ(v, req.min)
      [] req.op = <<"<">> -> VersionLT(v, req.min)
      [] req.op = <<"!", "=">> -> ~VersionEQ(v, req.min)
      [] OTHER -> FALSE


-----------------------------------------------------------------------------
(* The environment the descriptor is evaluated in *)

PreferredOutcomes == {"ok", "ModuleNotFoundError", "OtherException"}

FallbackOutcomes == {"ok", "ModuleNotFoundError"}

pyserial == <<"p", "y", "s", "e", "r", "i", "a", "l">>

xlsxwriter == <<"x", "l", "s", "x", "w", "r", "i", "t", "e", "r">>

xlwt == <<"x", "l", "w", "t">>

Missing == <<>>

RegistryNames == {pyserial, xlsxwriter, xlwt}

RegistryVersions == {<<3, 4>>, <<1, 1, 8>>, <<1, 3, 0>>, <<0, 9>>}

Registries == [RegistryNames -> RegistryVersions \cup {Missing}]

Offered(reg, n) == IF n \in DOMAIN reg THEN reg[n] ELSE Missing

Largest(min) ==
    IF min = <<>>
    THEN 0
    ELSE CHOOSE m \in {min[i] : i \in 1..Len(min)} :
             \A i \in 1..Len(min) : min[i] <= m

(* Candidate versions: up to MaxVerLen components, each within MaxDelta of the *)
(* corresponding component of min *)
Candidates(min) ==
    UNION { { v \in [1..n -> 0..(Largest(min) + MaxDelta)] :
                \A i \in 1..n :
                    /\ v[i] <= Component(min, i) + MaxDelta
                    /\ Component(min, i) <= v[i] + MaxDelta }
            : n \in 1..MaxVerLen }

NoInstall == [kind |-> "none"]

-----------------------------------------------------------------------------
(* The installer, acting on the requirements a setup(...) call declared *)

Resolvable(reqs, reg) ==
    \A i \in 1..Len(reqs) :
        LET r == ParseRequirement(reqs[i])
        IN  /\ Offered(reg, r.name) # Missing
            /\ Satisfies(r, Offered(reg, r.name))

InstallerResolve(reg) ==
    /\ pc = "done"
    /\ install = NoInstall
    /\ install' = [kind |-> "resolve",
                   registry |-> reg,
                   outcome |-> IF Resolvable(calls[1].kwargs.install_requires, reg)
                               THEN "resolved"
                               ELSE "dependency unresolvable"]
    /\ UNCHANGED <<preferred, fallback, pc, setup, imports, calls, error, results>>

InstallerCheck(i) ==
    /\ pc = "done"
    /\ install = NoInstall
    /\ i \in 1..Len(calls[1].kwargs.install_requires)
    /\ LET req == calls[1].kwargs.install_requires[i]
       IN  \E v \in Candidates(ParseRequirement(req).min) :
               install' = [kind |-> "check",
                           req |-> req,
                           candidate |-> v,
                           accepted |-> Satisfies(ParseRequirement(req), v)]
    /\ UNCHANGED <<preferred, fallback, pc, setup, imports, calls, error, results>>

-----------------------------------------------------------------------------
(* The module body, lines 19-30 *)

Init ==
    /\ preferred \in PreferredOutcomes
    /\ fallback \in FallbackOutcomes
    /\ pc = "idle"
    /\ setup = "unbound"
    /\ imports = <<>>
    /\ calls = <<>>
    /\ error = "none"
    /\ results = <<>>
    /\ install = NoInstall

(* The environment changes between evaluations (a tool is installed or removed). *)
SetEnvironment(p, f) ==
    /\ pc = "idle"
    /\ <<p, f>> # <<preferred, fallback>>
    /\ preferred' = p
    /\ fallback' = f
    /\ UNCHANGED <<pc, setup, imports, calls, error, results, install>>

(* The build process starts executing the module body, at most n times. *)
BeginUpTo(n) ==
    /\ pc = "idle"
    /\ Len(results) < n
    /\ pc' = "try"
    /\ imports' = <<>>
    /\ calls' = <<>>
    /\ error' = "none"
    /\ UNCHANGED <<preferred, fallback, setup, results, install>>

Begin == BeginUpTo(MaxEvals)

(* Variant: the handler catches a missing module only (except ImportError:) *)
ImportPreferred_MissingOnly ==
    /\ pc = "try"
    /\ imports' = Append(imports, "setuptools")
    /\ IF preferred = "ok"
       THEN setup' = "setuptools" /\ pc' = "call" /\ error' = error
       ELSE IF preferred = "ModuleNotFoundError"
            THEN setup' = setup /\ pc' = "except" /\ error' = error
            ELSE setup' = setup /\ pc' = "failed" /\ error' = preferred
    /\ UNCHANGED <<preferred, fallback, calls, results, install>>

(* try: from setuptools import setup / except: *)
ImportPreferred ==
    /\ pc = "try"
    /\ imports' = Append(imports, "setuptools")
    /\ IF preferred = "ok"
       THEN setup' = "setuptools" /\ pc' = "call"
       ELSE setup' = setup /\ pc' = "except"
    /\ UNCHANGED <<preferred, fallback, calls, error, results, install>>

(* Variant: the fallback import is itself wrapped in try/except: pass *)
ImportFallback_Swallowed ==
    /\ pc = "except"
    /\ imports' = Append(imports, "distutils.core")
    /\ IF fallback = "ok"
       THEN setup' = "distutils.core" /\ pc' = "call"
       ELSE setup' = setup /\ pc' = "done"
    /\ UNCHANGED <<preferred, fallback, calls, error, results, install>>

(* from distutils.core import setup, inside the handler: nothing catches it *)
ImportFallback ==
    /\ pc = "except"
    /\ imports' = Append(imports, "distutils.core")
    /\ IF fallback = "ok"
       THEN setup' = "distutils.core" /\ pc' = "call" /\ error' = error
       ELSE setup' = setup /\ pc' = "failed" /\ error' = fallback
    /\ UNCHANGED <<preferred, fallback, calls, results, install>>

(* Variant: install_requires is passed to setuptools only *)
CallSetup_RequiresForSetuptoolsOnly ==
    /\ pc = "call"
    /\ calls' = Append(calls,
                       [tool |-> setup,
                        kwargs |-> IF setup = "setuptools"
                                   THEN SetupKwargs
                                   ELSE [SetupKwargs EXCEPT !.install_requires = <<>>]])
    /\ pc' = "done"
    /\ UNCHANGED <<preferred, fallback, setup, imports, error, results, install>>

(* Variant: the requirement list is a module-level list extended on every run *)
CallSetup_Accumulating ==
    /\ pc = "call"
    /\ calls' = Append(calls,
                       [tool |-> setup,
                        kwargs |-> IF results = <<>>
                                   THEN SetupKwargs
                                   ELSE [SetupKwargs EXCEPT !.install_requires =
                                            install_requires \o install_requires]])
    /\ pc' = "done"
    /\ UNCHANGED <<preferred, fallback, setup, imports, error, results, install>>

(* setup(name=..., ..., install_requires=[...]) *)
CallSetup ==
    /\ pc = "call"
    /\ calls' = Append(calls, [tool |-> setup, kwargs |-> SetupKwargs])
    /\ pc' = "done"
    /\ UNCHANGED <<preferred, fallback, setup, imports, error, results, install>>

(* The module body has ended, normally or with the uncaught exception. *)
Finish ==
    /\ pc \in {"done", "failed"}
    /\ results' = Append(results,
                         [preferred |-> preferred,
                          fallback |-> fallback,
                          status |-> IF pc = "done" THEN "ok" ELSE "failed",
                          error |-> error,
                          imports |-> imports,
                          calls |-> calls])
    /\ pc' = "idle"
    /\ install' = NoInstall
    /\ UNCHANGED <<preferred, fallback, setup, imports, calls, error>>

(* Repeated evaluations of the descriptor, the environment changing between them *)
Next ==
    \/ \E p \in PreferredOutcomes, f \in FallbackOutcomes : SetEnvironment(p, f)
    \/ Begin
    \/ ImportPreferred
    \/ ImportFallback
    \/ CallSetup
    \/ Finish

Spec == Init /\ [][Next]_vars

(* One evaluation of the descriptor, and the installer acting on what it declared *)
BeginOnce == BeginUpTo(1)

InstallNext ==
    \/ BeginOnce
    \/ ImportPreferred
    \/ ImportFallback
    \/ CallSetup
    \/ Finish
    \/ \E reg \in Registries : InstallerResolve(reg)
    \/ \E i \in 1..Len(install_requires) : InstallerCheck(i)

InstallSpec == Init /\ [][InstallNext]_vars

-----------------------------------------------------------------------------
(* Properties *)

HemoDownloader ==
    <<"H", "e", "m", "o", "D", "o", "w", "n", "l", "o", "a", "d", "e", "r">>

(* Every setup(...) call made so far, by the current or a completed evaluation *)
AllCalls ==
    {calls[i] : i \in 1..Len(calls)}
        \cup UNION { {results[k].calls[i] : i \in 1..Len(results[k].calls)}
                     : k \in 1..Len(results) }

Declared(call) ==
    [i \in 1..Len(call.kwargs.install_requires) |->
        ParseRequirement(call.kwargs.install_requires[i])]

ExactRegistry ==
    [n \in RegistryNames |->
        CASE n = pyserial -> <<3, 4>>
          [] n = xlsxwriter -> <<1, 1, 8>>
          [] n = xlwt -> <<1, 3, 0>>]

\* C1: every setup call declares exactly three dependencies, with non-empty and
\* pairwise different names, and they are pyserial with minimum 3.4, xlsxwriter
\* with minimum 1.1.8 and xlwt with minimum 1.3.0.
C1_ThreeDependencies ==
    \A c \in AllCalls :
        LET d == Declared(c)
        IN  /\ Len(d) = 3
            /\ \A i \in 1..Len(d) : d[i].name # <<>> /\ d[i].valid
            /\ \A i, j \in 1..Len(d) : d[i].name = d[j].name => i = j
            /\ {<<d[i].name, d[i].min>> : i \in 1..Len(d)}
                 = {<<pyserial, <<3, 4>>>>,
                    <<xlsxwriter, <<1, 1, 8>>>>,
                    <<xlwt, <<1, 3, 0>>>>}

C1_Witness == pc = "done" /\ Len(calls) = 1 /\ Len(Declared(calls[1])) = 3

\* C2: the name handed to setup is "HemoDownloader" and the version is "1.2".
C2_NameAndVersion ==
    \A c \in AllCalls :
        /\ c.kwargs.name = HemoDownloader
        /\ c.kwargs.version = <<"1", ".", "2">>

\* C3: an evaluation with setuptools absent and distutils present succeeds with
\* one setup call through distutils.core, and the arguments of that call are the
\* arguments of the call of any evaluation in which setuptools is present.
C3_FallbackSameOutput ==
    \A k \in 1..Len(results) :
        (results[k].preferred # "ok" /\ results[k].fallback = "ok") =>
            /\ results[k].status = "ok"
            /\ results[k].error = "none"
            /\ Len(results[k].calls) = 1
            /\ results[k].calls[1].tool = "distutils.core"
            /\ \A m \in 1..Len(results) :
                   results[m].preferred = "ok" =>
                       /\ Len(results[m].calls) = 1
                       /\ results[m].calls[1].tool = "setuptools"
                       /\ results[m].calls[1].kwargs = results[k].calls[1].kwargs

C3_Witness ==
    \E k, m \in 1..Len(results) :
        /\ results[k].preferred = "ModuleNotFoundError"
        /\ results[k].fallback = "ok"
        /\ results[k].status = "ok"
        /\ results[m].preferred = "ok"
        /\ results[m].status = "ok"

\* C4: with setuptools and distutils both unavailable the evaluation ends with
\* the import error uncaught, and setup is never called.
C4_NoToolIsFatal ==
    /\ (pc \in {"except", "failed"} /\ fallback # "ok") => calls = <<>>
    /\ pc = "failed" => (error # "none" /\ calls = <<>>)
    /\ \A k \in 1..Len(results) :
           (results[k].preferred # "ok" /\ results[k].fallback # "ok") =>
               /\ results[k].status = "failed"
               /\ results[k].error = "ModuleNotFoundError"
               /\ results[k].calls = <<>>

C4_Witness ==
    \E k \in 1..Len(results) :
        /\ results[k].preferred # "ok"
        /\ results[k].fallback # "ok"
        /\ results[k].status = "failed"

\* C5: every declared requirement uses the operator >=, and the installer accepts
\* a candidate version for it exactly when the candidate is greater than or equal
\* to the declared minimum.
C5_MinimumIsFloor ==
    /\ \A c \in AllCalls :
           \A i \in 1..Len(Declared(c)) : Declared(c)[i].op = <<">", "=">>
    /\ install.kind = "check" =>
           (install.accepted
                <=> VersionGE(install.candidate, ParseRequirement(install.req).min))

C5_Witness ==
    /\ install.kind = "check"
    /\ install.accepted
    /\ ~VersionEQ(install.candidate, ParseRequirement(install.req).min)

\* C6: resolution against the registry holding exactly 3.4, 1.1.8 and 1.3.0
\* succeeds; against a registry missing one of the three libraries it ends
\* "dependency unresolvable", in the installer, after the descriptor's
\* evaluation has made its setup call without error.
C6_Resolution ==
    install.kind = "resolve" =>
        /\ install.registry = ExactRegistry => install.outcome = "resolved"
        /\ (\E n \in RegistryNames : install.registry[n] = Missing)
               => install.outcome = "dependency unresolvable"
        /\ install.outcome = "dependency unresolvable"
               => (pc = "done" /\ error = "none" /\ Len(calls) = 1)

C6_Witness ==
    /\ install.kind = "resolve"
    /\ install.registry[xlwt] = Missing
    /\ install.registry[pyserial] = <<3, 4>>
    /\ install.registry[xlsxwriter] = <<1, 1, 8>>
    /\ install.outcome = "dependency unresolvable"

\* C7: two evaluations under the same availability of setuptools and distutils
\* end the same way, with the same imports, the same setup calls and the same
\* arguments; the binding of `setup` an earlier evaluation left behind is never
\* the one a later evaluation calls.
C7_Idempotent ==
    /\ \A k, m \in 1..Len(results) :
           (results[k].preferred = results[m].preferred
                /\ results[k].fallback = results[m].fallback)
               => results[k] = results[m]
    /\ pc = "call" => setup = imports[Len(imports)]

C7_Witness ==
    /\ Len(results) >= 2
    /\ results[1].preferred = results[2].preferred
    /\ results[1].fallback = results[2].fallback
    /\ results[1].status = "ok"

\* C8 as stated: every declared minimum version has three numeric components.
C8_ThreeComponents ==
    \A c \in AllCalls :
        \A i \in 1..Len(Declared(c)) :
            Declared(c)[i].valid /\ Len(Declared(c)[i].min) = 3

\* C8 amended: every declared minimum version is a dot-separated list of
\* numeric components: two (major.minor) for pyserial, three (major.minor.patch)
\* for xlsxwriter and xlwt.
C8_NumericComponents ==
    \A c \in AllCalls :
        \A i \in 1..Len(Declared(c)) :
            /\ Declared(c)[i].valid
            /\ Len(Declared(c)[i].min)
                   = (IF Declared(c)[i].name = pyserial THEN 2 ELSE 3)

C8_Witness ==
    /\ pc = "done"
    /\ \E i \in 1..Len(Declared(calls[1])) :
           Declared(calls[1])[i].name = pyserial /\ Len(Declared(calls[1])[i].min) = 2

\* C9: name, version, description, author and author_email are all passed to
\* setup, each a non-empty string.
C9_MetadataNonEmpty ==
    \A c \in AllCalls :
        /\ {"name", "version", "description", "author", "author_email"}
               \subseteq DOMAIN c.kwargs
        /\ c.kwargs.name # <<>>
        /\ c.kwargs.version # <<>>
        /\ c.kwargs.description # <<>>
        /\ c.kwargs.author # <<>>
        /\ c.kwargs.author_email # <<>>

C9_Witness == pc = "done" /\ Len(calls) = 1 /\ Len(calls[1].kwargs.description) > 0

(* The imports and calls of one evaluation, as far as it has got *)
SelectionOrder(pref, at, imps, cs, bound) ==
    /\ at \in {"except", "call", "done", "failed"} => Len(imps) >= 1
    /\ Len(imps) >= 1 => imps[1] = "setuptools"
    /\ \A i \in 1..Len(imps) :
           imps[i] = "distutils.core" => (i = 2 /\ pref # "ok")
    /\ (pref = "ok" /\ at \in {"call", "done"}) =>
           (imps = <<"setuptools">> /\ bound = "setuptools")
    /\ (pref # "ok" /\ at \in {"call", "done", "failed"}) =>
           imps = <<"setuptools", "distutils.core">>
    /\ (pref # "ok" /\ at \in {"call", "done"}) => bound = "distutils.core"
    /\ at \in {"try", "except", "call", "failed"} => cs = <<>>
    /\ at = "done" => (Len(cs) = 1 /\ cs[1].tool = bound)

\* C10: setuptools is imported first and used when its import succeeds, with
\* distutils.core never imported; distutils.core is imported second, only after
\* the setuptools import raised, whatever it raised; setup is called once, after
\* the selection, with the one tool bound, in every evaluation that does not fail.
C10_SelectionOrder ==
    /\ pc # "idle" => SelectionOrder(preferred, pc, imports, calls, setup)
    /\ \A k \in 1..Len(results) :
           SelectionOrder(results[k].preferred,
                          IF results[k].status = "ok" THEN "done" ELSE "failed",
                          results[k].imports,
                          results[k].calls,
                          IF results[k].calls # <<>>
                          THEN results[k].calls[1].tool
                          ELSE "unbound")

C10_Witness ==
    /\ pc = "done"
    /\ preferred = "OtherException"
    /\ imports = <<"setuptools", "distutils.core">>
    /\ Len(calls) = 1
    /\ calls[1].tool = "distutils.core"

=============================================================================
